---- MODULE Spec2Model ----
(***************************************************************************)
(* State-machine model of the YouTube timestamp saver content script       *)
(* (src/content.js): the per-video bookmark list, its synchronisation with *)
(* chrome.storage.local, navigation between videos and the rendered        *)
(* overlay (list rows and progress-bar markers).                           *)
(*                                                                         *)
(* One action is one run-to-completion piece of JavaScript: an event       *)
(* handler up to its first await, or the continuation that runs when a     *)
(* storage callback fires.  The storage calls in flight are the sequence   *)
(* `tasks`, in the order in which they were issued.                        *)
(***************************************************************************)
EXTENDS Integers, Sequences, FiniteSets, TLC

(***************************************************************************)
(* Bounds of the model.                                                    *)
(***************************************************************************)
MaxEvents == 5          \* handler invocations (clicks, commits, onUrlChange calls)
MaxInstalls == 2        \* runs of initialize()
MaxTime == 1            \* last playback position at which a click is taken

(***************************************************************************)
(* Values.                                                                 *)
(***************************************************************************)
Null == "null"                      \* JavaScript null / undefined reference
Ids == {"a", "b"}                   \* video identifiers
Times == 0..MaxTime                 \* playback positions, in seconds
NoteTexts == {"", "n"}              \* trimmed note texts
Undefined == -1                     \* a bookmark object without `time`
NoDuration == 0                     \* video.duration that is NaN or 0
VideoLength == MaxTime + 1          \* video.duration once metadata is loaded

\* { time: Number(time), note: note || "" }
Bm(t, n) == [kind |-> "bm", time |-> t, note |-> n]
\* an index of the array that holds no element
Hole == [kind |-> "hole", time |-> Undefined, note |-> ""]
\* the null that a hole becomes in storage
JsonNull == [kind |-> "null", time |-> Undefined, note |-> ""]

\* The page locations of the model, as the parts new URL() exposes.
Location(v, path, seg, host) == [v |-> v, path |-> path, seg |-> seg, host |-> host]
Locations ==
    { Location(x, "watch", Null, "www.youtube.com") : x \in Ids }
        \cup { Location(Null, "other", Null, "www.youtube.com") }

VARIABLES
    url,              \* location.href
    dom,              \* host page: [secondary, video, bar, duration, resizeObserver]
    videoId,          \* let videoId
    videoPlayer,      \* let videoPlayer
    attachedVideo,    \* let attachedVideo (element carrying the listeners)
    savedTimestamps,  \* let savedTimestamps
    container,        \* let container (TRUE: the overlay element exists)
    progressBar,      \* let progressBar
    rows,             \* the <li> rows of the list panel, by data-index
    markers,          \* the .timestamp-marker children of the progress bar
    storage,          \* chrome.storage.local: the `timestamps` mapping
    tasks,            \* storage calls in flight, oldest first
    saves,            \* clicks on the save button so far
    events,           \* handler invocations so far
    other,            \* a second tab running the same script
    listening,        \* elements carrying the timeupdate listener
    observed,         \* elements observed by videoRO
    timerQ,           \* pending debounce timers, earliest deadline first
    lastHref,         \* let lastHref of each installed mutation observer
    calls,            \* onUrlChange invocations made by the navigation producers
    installs,         \* runs of initialize() that installed listeners
    hooked,           \* window.__timestamp_history_hooked
    renderTimer,      \* the timer of debouncedRenderMarkers is pending
    memOwner,         \* history: the identifier savedTimestamps was made for
    prior,            \* history: the list of the identifier left last
    last              \* history: the handler that ran last

vars == <<url, dom, videoId, videoPlayer, attachedVideo, savedTimestamps,
          container, progressBar, rows, markers, storage, tasks, saves,
          events, other, listening, observed, timerQ, lastHref, calls,
          installs, hooked, renderTimer, memOwner, prior, last>>

\* the state of the navigation producers
navVars == <<timerQ, lastHref, calls, installs, hooked>>

(***************************************************************************)
(* Pure helpers.                                                           *)
(***************************************************************************)
RemoveAt(s, i) == [k \in 1..(Len(s) - 1) |-> IF k < i THEN s[k] ELSE s[k + 1]]

EmptyMap == [k \in {} |-> [isArray |-> TRUE, items |-> <<>>]]

\* String.prototype.includes: s occurs somewhere in h
Includes(h, s) ==
    \E i \in 1..(Len(h) - Len(s) + 1) : SubSeq(h, i, i + Len(s) - 1) = s

\* getVideoIdFromUrl: ?v= first, then /embed/, /shorts/, then the first path
\* segment on a host whose name contains "youtu.be"
getVideoIdFromUrl(u) ==
    IF u.v # Null THEN u.v
    ELSE IF u.path = "embed" THEN u.seg
    ELSE IF u.path = "shorts" THEN u.seg
    ELSE IF Includes(u.host, "youtu.be") THEN u.seg
    ELSE Null

\* getVideoPlayer: the <video> element of the page, or null
getVideoPlayer == dom.video

\* getCurrentTimeSafe: the value of videoPlayer after the call (the element
\* is looked up again when the variable is null or left the document)
TimeVideo ==
    IF videoPlayer = Null \/ videoPlayer # dom.video
    THEN getVideoPlayer ELSE videoPlayer

Min(a, b) == IF a <= b THEN a ELSE b
Max(a, b) == IF a >= b THEN a ELSE b

\* getCurrentTimeSafe with the element at position p: p clamped to
\* [0, duration], or 0 without a video element
getCurrentTimeSafe(p) ==
    IF TimeVideo = Null THEN 0
    ELSE Max(0, Min(p, IF dom.duration = NoDuration THEN p ELSE dom.duration))

\* What chrome.storage keeps of an array: a hole is stored as null.
ToJson(list) ==
    [k \in 1..Len(list) |-> IF list[k].kind = "hole" THEN JsonNull ELSE list[k]]

\* all[id] = savedTimestamps, on the mapping read from storage
Merge(all, id, list) ==
    [k \in (DOMAIN all) \cup {id} |->
        IF k = id THEN [isArray |-> TRUE, items |-> ToJson(list)] ELSE all[k]]

\* all[id] || []: a load without the Array.isArray test (a faulty variant
\* of Loaded, used to show that C19 depends on the test)
LoadedUnchecked(all, id) ==
    IF id \in DOMAIN all THEN all[id].items ELSE <<>>

\* Array.isArray(all[id]) ? all[id] : []
Loaded(all, id) ==
    IF id \in DOMAIN all /\ all[id].isArray THEN all[id].items ELSE <<>>

\* savedTimestamps.push(item)
Push(list, item) == Append(list, item)

\* A splice that removes the last element whatever the index (a faulty
\* variant of Splice, used to show that C8 depends on the index).
SpliceLast(list, i) == RemoveAt(list, Len(list))

\* savedTimestamps.splice(index, 1), index counted from 1 here
Splice(list, i) == RemoveAt(list, i)

\* list[idx] = { ...list[idx], note }: the element's other properties are
\* kept; an index past the end lengthens the array and leaves holes.
WithNote(item, n) ==
    IF item.kind = "bm" THEN [item EXCEPT !.note = n] ELSE Bm(Undefined, n)

SetNote(list, i, n) ==
    [k \in 1..(IF i > Len(list) THEN i ELSE Len(list)) |->
        IF k = i THEN WithNote(IF i <= Len(list) THEN list[i] ELSE Hole, n)
        ELSE IF k <= Len(list) THEN list[k] ELSE Hole]

\* The index of the first null element, which makes item.time throw.
FirstNull(list) ==
    IF \E k \in 1..Len(list) : list[k].kind = "null"
    THEN CHOOSE k \in 1..Len(list) :
            /\ list[k].kind = "null"
            /\ \A j \in 1..(k - 1) : list[j].kind # "null"
    ELSE Len(list) + 1

\* createContainerIfNeeded: the value of `container` after the call
createContainerIfNeeded(vid, c) ==
    IF vid = Null THEN c
    ELSE IF c THEN c
    ELSE IF ~dom.secondary THEN c
    ELSE TRUE

\* renderTimestampList throws when there is no container, or at a null item
RenderListThrows(c, list) == ~c \/ FirstNull(list) <= Len(list)

\* renderTimestampList: the rows after the call, by data-index (forEach
\* skips holes; the rows before a null item are already in the list)
RowsOf(list) == SubSeq(list, 1, FirstNull(list) - 1)

\* renderProgressBarMarkers: one marker per item, forEach skips holes and
\* the try/catch ends the loop at a null item
MarkersOf(list) ==
    SelectSeq(SubSeq(list, 1, FirstNull(list) - 1), LAMBDA e : e.kind # "hole")

(***************************************************************************)
(* Rendering, as the value of the overlay after the calls.                 *)
(***************************************************************************)
\* renderProgressBarMarkers: the video element it ends up using
MarkerVideo ==
    IF videoPlayer = Null \/ videoPlayer # dom.video
    THEN getVideoPlayer ELSE videoPlayer

\* renderProgressBarMarkers: progressBar || querySelector(".ytp-progress-bar")
MarkerBar(pb) == IF pb # Null THEN pb ELSE dom.bar

\* renderProgressBarMarkers(): the markers after the call, `old` before it
renderProgressBarMarkers(list, pb, old) ==
    IF MarkerBar(pb) = Null \/ MarkerVideo = Null THEN old
    ELSE IF dom.duration = NoDuration THEN <<>>
    ELSE MarkersOf(list)

\* renderTimestampList(); renderProgressBarMarkers(); with `pb` the cached
\* progress bar at the second call.  A throw of the first call skips the
\* second.
Render(list, pb) ==
    LET c == createContainerIfNeeded(videoId, container)
        threw == RenderListThrows(c, list)
    IN [container |-> c,
        rows |-> IF c THEN RowsOf(list) ELSE rows,
        videoPlayer |-> IF threw THEN videoPlayer ELSE MarkerVideo,
        progressBar |-> IF threw THEN progressBar ELSE MarkerBar(pb),
        markers |-> IF threw THEN markers
                    ELSE renderProgressBarMarkers(list, pb, markers)]

\* attachVideoListeners(video): the element carrying the listeners afterwards
attachVideoListeners(video) == video

\* attachVideoListeners(video) that does not detach from the element bound
\* before (a faulty variant of ListeningAfter, used to show that C16
\* depends on the removeEventListener call)
ListeningKept(video) ==
    IF attachedVideo = video THEN listening
    ELSE listening \cup (IF video # Null THEN {video} ELSE {})

\* attachVideoListeners(video): the elements with the timeupdate listener
\* afterwards
ListeningAfter(video) ==
    IF attachedVideo = video THEN listening
    ELSE (listening \ {attachedVideo}) \cup (IF video # Null THEN {video} ELSE {})

\* attachVideoListeners(video): the elements videoRO observes afterwards;
\* `new ResizeObserver` throws where the host has no such constructor
ObservedAfter(video) ==
    LET disconnected == IF attachedVideo # Null THEN {} ELSE observed IN
    IF attachedVideo = video THEN observed
    ELSE IF video # Null /\ dom.resizeObserver THEN disconnected \cup {video}
    ELSE disconnected

(***************************************************************************)
(* Storage calls in flight.                                                *)
(***************************************************************************)
\* A call of loadSavedTimestampsForVideo(id) or of
\* persistSavedTimestampsForVideo(id) that waits for storage: `op` names the
\* caller, whose continuation runs afterwards; `stage` is the storage call
\* it waits for; `all` is the mapping handed to storageSet; `src` records
\* the owner of the list that was put into `all`.
Task(op, id) == [op |-> op, id |-> id, stage |-> "get", all |-> EmptyMap, src |-> Null]

\* The second tab: the identifier it shows, its savedTimestamps and the
\* storage calls of its persists in flight, oldest first.
Call(stage, all) == [stage |-> stage, all |-> all]
Tab(id, list, queue) == [id |-> id, list |-> list, calls |-> queue]
NoTab == Tab(Null, <<>>, <<>>)

\* History of a switch from one identifier to another: the identifier left,
\* its list at that moment, and whether the page has switched back to it.
Prior(id, list, back) == [id |-> id, list |-> list, back |-> back]
NoPrior == Prior(Null, <<>>, FALSE)

Event(op, by, idx, val) == [op |-> op, by |-> by, idx |-> idx, val |-> val]

\* persistSavedTimestampsForVideo(id) up to its first await
persistSavedTimestampsForVideo(op, id) == Append(tasks, Task(op, id))

\* loadSavedTimestampsForVideo(id) up to its first await (id is not null)
loadSavedTimestampsForVideo(id) == Append(tasks, Task("load", id))

(***************************************************************************)
(* Initial state: the script has run initialize() on a page whose side     *)
(* panel, video element and progress bar exist; nothing is stored yet.     *)
(* initialize() ends at its call of waitForElements, a function the script *)
(* does not define, so the first load is the one of the first onUrlChange. *)
(***************************************************************************)
Init ==
    /\ url \in Locations
    /\ dom = [secondary |-> TRUE, video |-> "video1", bar |-> "bar1", duration |-> VideoLength,
              resizeObserver |-> TRUE]
    /\ videoId = Null
    /\ videoPlayer = Null
    /\ attachedVideo = Null
    /\ savedTimestamps = <<>>
    /\ container = FALSE
    /\ progressBar = Null
    /\ rows = <<>>
    /\ markers = <<>>
    /\ storage = EmptyMap
    /\ tasks = <<>>
    /\ saves = 0
    /\ events = 0
    /\ other = NoTab
    /\ listening = {}
    /\ observed = {}
    /\ timerQ = <<>>
    /\ lastHref = <<url>>
    /\ calls = 0
    /\ installs = 1
    /\ hooked = TRUE
    /\ renderTimer = FALSE
    /\ memOwner = Null
    /\ prior = NoPrior
    /\ last = Event("init", "", 0, 0)

(***************************************************************************)
(* Handlers.                                                               *)
(***************************************************************************)
\* History: what `prior` becomes when videoId changes from `old` to `new`.
\* A switch between two identifiers made with the list of `old` in memory
\* is recorded, and marked when the next switch leads back.
Switched(old, new) ==
    IF old = Null \/ new = Null \/ memOwner # old THEN NoPrior
    ELSE IF prior.id = new /\ ~prior.back THEN [prior EXCEPT !.back = TRUE]
    ELSE Prior(old, savedTimestamps, FALSE)

\* onUrlChange() without its early return for an unchanged identifier (a
\* faulty variant of onUrlChange, used to show that C13 depends on the guard)
onUrlChangeUnguarded(u) ==
    LET newId == getVideoIdFromUrl(u) IN
    /\ url' = u
    /\ last' = Event("onUrlChange", "", 0, 0)
    /\ videoId' = newId
    /\ prior' = Switched(videoId, newId)
    /\ IF newId = Null
       THEN /\ savedTimestamps' = <<>>
            /\ memOwner' = Null
            /\ container' = FALSE
            /\ rows' = <<>>
            /\ UNCHANGED <<videoPlayer, attachedVideo, tasks, listening, observed>>
       ELSE /\ videoPlayer' = getVideoPlayer
            /\ attachedVideo' = attachVideoListeners(getVideoPlayer)
            /\ listening' = ListeningAfter(getVideoPlayer)
            /\ observed' = ObservedAfter(getVideoPlayer)
            /\ tasks' = loadSavedTimestampsForVideo(newId)
            /\ UNCHANGED <<savedTimestamps, memOwner, container, rows>>
    /\ UNCHANGED <<dom, progressBar, markers, storage, saves, other>>

\* onUrlChange(), up to `await loadSavedTimestampsForVideo(videoId)`, called
\* (by a debounced navigation signal or by the mutation observer) when the
\* host page is at location u
onUrlChange(u) ==
    LET newId == getVideoIdFromUrl(u) IN
    /\ url' = u
    /\ last' = Event("onUrlChange", "", 0, 0)
    /\ IF newId = videoId
       THEN UNCHANGED <<videoId, videoPlayer, attachedVideo, savedTimestamps,
                        container, rows, tasks, memOwner, prior,
                        listening, observed>>
       ELSE /\ videoId' = newId
            /\ prior' = Switched(videoId, newId)
            /\ IF newId = Null
               THEN /\ savedTimestamps' = <<>>
                    /\ memOwner' = Null
                    /\ container' = FALSE          \* destroyContainer()
                    /\ rows' = <<>>
                    /\ UNCHANGED <<videoPlayer, attachedVideo, tasks,
                                   listening, observed>>
               ELSE /\ videoPlayer' = getVideoPlayer
                    /\ attachedVideo' = attachVideoListeners(getVideoPlayer)
                    /\ listening' = ListeningAfter(getVideoPlayer)
                    /\ observed' = ObservedAfter(getVideoPlayer)
                    /\ tasks' = loadSavedTimestampsForVideo(newId)
                    /\ UNCHANGED <<savedTimestamps, memOwner, container, rows>>
    /\ UNCHANGED <<dom, progressBar, markers, storage, saves, other>>

\* saveBtn click with the video at position p:
\* saveTimestamp(Math.round(t * 100) / 100), t = getCurrentTimeSafe()
saveTimestamp(p) ==
    /\ container
    /\ saves' = saves + 1
    /\ last' = Event("save", "", 0, getCurrentTimeSafe(p))
    /\ videoPlayer' = TimeVideo        \* getCurrentTimeSafe()
    /\ IF videoId = Null
       THEN UNCHANGED <<savedTimestamps, tasks>>
       ELSE /\ savedTimestamps' = Push(savedTimestamps, Bm(getCurrentTimeSafe(p), ""))
            /\ tasks' = persistSavedTimestampsForVideo("save", videoId)
    /\ UNCHANGED <<url, dom, videoId, attachedVideo, container,
                   progressBar, rows, markers, storage, memOwner>>
    /\ events < MaxEvents /\ events' = events + 1
    /\ UNCHANGED <<other, prior>>
    /\ UNCHANGED <<listening, observed, navVars, renderTimer>>

\* click on the delete button of the row with data-index i - 1
deleteTimestamp(i) ==
    /\ container
    /\ i \in 1..Len(rows) /\ rows[i].kind # "hole"
    /\ last' = Event("delete", "", i, IF i > Len(savedTimestamps) THEN 0 ELSE 1)
    /\ IF i < 1 \/ i > Len(savedTimestamps)
       THEN UNCHANGED <<savedTimestamps, tasks>>
       ELSE /\ savedTimestamps' = Splice(savedTimestamps, i)
            /\ tasks' = persistSavedTimestampsForVideo("delete", videoId)
    /\ UNCHANGED <<url, dom, videoId, videoPlayer, attachedVideo, container,
                   progressBar, rows, markers, storage, memOwner>>
    /\ saves' = saves
    /\ events < MaxEvents /\ events' = events + 1
    /\ UNCHANGED <<other, prior>>
    /\ UNCHANGED <<listening, observed, navVars, renderTimer>>

\* focusout of the note input of the row with data-index i - 1, holding n:
\* the persist is not awaited, the list is rendered at once
commitNote(i, n) ==
    /\ container
    /\ i \in 1..Len(rows) /\ rows[i].kind # "hole"
    /\ last' = Event("note", "", i, 0)
    /\ savedTimestamps' = SetNote(savedTimestamps, i, n)
    /\ tasks' = persistSavedTimestampsForVideo("note", videoId)
    /\ rows' = RowsOf(savedTimestamps')
    /\ UNCHANGED <<url, dom, videoId, videoPlayer, attachedVideo, container,
                   progressBar, markers, storage, memOwner>>
    /\ saves' = saves
    /\ events < MaxEvents /\ events' = events + 1
    /\ UNCHANGED <<other, prior>>
    /\ UNCHANGED <<listening, observed, navVars, renderTimer>>

\* clearBtn click, with the answer given to confirm()
clearAll(ok) ==
    /\ container
    /\ last' = Event("clear", "", 0, IF ok THEN 1 ELSE 0)
    /\ IF ~ok
       THEN UNCHANGED <<savedTimestamps, tasks, memOwner>>
       ELSE /\ savedTimestamps' = <<>>
            /\ memOwner' = videoId
            /\ tasks' = persistSavedTimestampsForVideo("clear", videoId)
    /\ UNCHANGED <<url, dom, videoId, videoPlayer, attachedVideo, container,
                   progressBar, rows, markers, storage>>
    /\ saves' = saves
    /\ events < MaxEvents /\ events' = events + 1
    /\ UNCHANGED <<other, prior>>
    /\ UNCHANGED <<listening, observed, navVars, renderTimer>>

\* click on marker i of the progress bar: the handler made when the marker
\* was drawn seeks to the time of the item it was drawn for
markerClick(i) ==
    LET vp == IF videoPlayer = Null THEN getVideoPlayer ELSE videoPlayer IN
    /\ i \in 1..Len(markers)
    /\ videoPlayer' = vp
    /\ last' = Event("marker", "", i,
                     IF vp # Null THEN markers[i].time ELSE Undefined)
    /\ events < MaxEvents /\ events' = events + 1
    /\ UNCHANGED <<url, dom, videoId, attachedVideo, savedTimestamps,
                   container, progressBar, rows, markers, storage, tasks,
                   saves, memOwner, other, prior, listening, observed, navVars, renderTimer>>

\* click on the jump button of the row with data-index i - 1
jumpToTimestamp(i) ==
    /\ container
    /\ i \in 1..Len(rows) /\ rows[i].kind # "hole"
    /\ last' = Event("jump", "",  i,
                     IF /\ i <= Len(savedTimestamps)
                        /\ savedTimestamps[i].kind = "bm"
                        /\ videoPlayer # Null
                     THEN savedTimestamps[i].time ELSE Undefined)
    /\ UNCHANGED <<url, dom, videoId, videoPlayer, attachedVideo, savedTimestamps,
                   container, progressBar, rows, markers, storage, tasks, memOwner>>
    /\ saves' = saves
    /\ events < MaxEvents /\ events' = events + 1
    /\ UNCHANGED <<other, prior>>
    /\ UNCHANGED <<listening, observed, navVars, renderTimer>>

(***************************************************************************)
(* Storage callbacks.                                                      *)
(***************************************************************************)
\* storageGet resolves for tasks[i], a load: the rest of
\* loadSavedTimestampsForVideo and of onUrlChange
loadDone(i) ==
    LET t == tasks[i]
        list == Loaded(storage, t.id)
        r == Render(list, dom.bar)     \* progressBar = querySelector(...)
    IN
    /\ t.op = "load" /\ t.stage = "get"
    /\ tasks' = RemoveAt(tasks, i)
    /\ savedTimestamps' = list
    /\ memOwner' = t.id
    /\ container' = r.container      \* createContainerIfNeeded()
    /\ rows' = r.rows
    /\ videoPlayer' = r.videoPlayer
    /\ progressBar' = r.progressBar
    /\ markers' = r.markers
    /\ last' = Event("done", "load", 0, 0)
    /\ UNCHANGED <<url, dom, videoId, attachedVideo, storage>>
    /\ UNCHANGED <<saves, events>>
    /\ UNCHANGED <<other, prior>>
    /\ UNCHANGED <<listening, observed, navVars, renderTimer>>

\* storageGet resolves for tasks[i], a persist: all[id] = savedTimestamps,
\* then storageSet({ timestamps: all }) is issued
persistRead(i) ==
    LET t == tasks[i] IN
    /\ t.op # "load" /\ t.stage = "get"
    /\ tasks' = Append(RemoveAt(tasks, i),
                       [t EXCEPT !.stage = "set",
                                 !.all = Merge(storage, t.id, savedTimestamps),
                                 !.src = memOwner])
    /\ last' = Event("read", t.op, 0, 0)
    /\ UNCHANGED <<url, dom, videoId, videoPlayer, attachedVideo, savedTimestamps,
                   container, progressBar, rows, markers, storage, memOwner>>
    /\ UNCHANGED <<saves, events>>
    /\ UNCHANGED <<other, prior>>
    /\ UNCHANGED <<listening, observed, navVars, renderTimer>>

\* storageSet resolves for tasks[i]: the mapping is stored and the caller's
\* continuation runs (saveTimestamp, deleteTimestamp and the clear handler
\* render; the note commit did not wait)
persistDone(i) ==
    LET t == tasks[i]
        r == Render(savedTimestamps, progressBar)
    IN
    /\ t.stage = "set"
    /\ tasks' = RemoveAt(tasks, i)
    /\ storage' = t.all
    /\ last' = Event("done", t.op, 0, 0)
    /\ IF t.op = "note"
       THEN UNCHANGED <<container, rows, videoPlayer, progressBar, markers>>
       ELSE /\ container' = r.container
            /\ rows' = r.rows
            /\ videoPlayer' = r.videoPlayer
            /\ progressBar' = r.progressBar
            /\ markers' = r.markers
    /\ UNCHANGED <<url, dom, videoId, attachedVideo, savedTimestamps, memOwner>>
    /\ UNCHANGED <<saves, events>>
    /\ UNCHANGED <<other, prior>>
    /\ UNCHANGED <<listening, observed, navVars, renderTimer>>

(***************************************************************************)
(* Specifications.                                                         *)
(***************************************************************************)
User ==
    \/ \E p \in Times : saveTimestamp(p)
    \/ \E i \in 1..Len(rows) : deleteTimestamp(i)
    \/ \E i \in 1..Len(rows), n \in NoteTexts : commitNote(i, n)
    \/ \E ok \in BOOLEAN : clearAll(ok)
    \/ \E i \in 1..Len(rows) : jumpToTimestamp(i)
    \/ \E i \in 1..Len(markers) : markerClick(i)

\* the host page moves to location u through an entry point the script does
\* not see (the page's own history calls run in another JavaScript world)
hostNavigate(u) ==
    /\ u # url
    /\ url' = u
    /\ UNCHANGED <<dom, videoId, videoPlayer, attachedVideo, savedTimestamps,
                   container, progressBar, rows, markers, storage, tasks, saves,
                   events, other, listening, observed, navVars, renderTimer, memOwner, prior,
                   last>>

\* the callback of mutation observer k, run on a batch of DOM mutations
observe(k) ==
    /\ k \in DOMAIN lastHref
    /\ lastHref[k] # url
    /\ lastHref' = [lastHref EXCEPT ![k] = url]
    /\ onUrlChange(url)
    /\ events < MaxEvents /\ events' = events + 1
    /\ calls' = IF timerQ = <<>> THEN 1 ELSE calls + 1
    /\ UNCHANGED <<timerQ, installs, hooked, renderTimer>>

\* A navigation as the script sees it when no navigation event reaches its
\* listeners: the host page changes its location, and at the next batch of
\* DOM mutations the mutation observer finds location.href changed and
\* calls onUrlChange().  Other callbacks can run in between.
Page ==
    \/ \E u \in Locations : hostNavigate(u)
    \/ observe(1)

\* chrome.storage.local serves the calls of one context in the order in
\* which they were made, so the oldest call in flight completes first.
Storage ==
    \/ tasks # <<>> /\ loadDone(1)
    \/ tasks # <<>> /\ persistRead(1)
    \/ tasks # <<>> /\ persistDone(1)

Next == User \/ Page \/ Storage

Spec == Init /\ [][Next]_vars

(***************************************************************************)
(* A second tab: the same script in another execution context, showing     *)
(* another video.  Both tabs share chrome.storage.local.                   *)
(***************************************************************************)
\* saveBtn click in the second tab with its video at position p:
\* saveTimestamp up to the await of its persist
otherSave(p) ==
    /\ other.id # Null
    /\ events < MaxEvents /\ events' = events + 1
    /\ other' = [other EXCEPT !.list = Push(@, Bm(p, "")),
                              !.calls = Append(@, Call("get", EmptyMap))]
    /\ last' = Event("otherSave", "", 0, p)
    /\ UNCHANGED <<url, dom, videoId, videoPlayer, attachedVideo, savedTimestamps,
                   container, progressBar, rows, markers, storage, tasks, saves,
                   memOwner, prior>>
    /\ UNCHANGED <<listening, observed, navVars, renderTimer>>

\* storageGet resolves in the second tab: all[id] = savedTimestamps, then
\* storageSet({ timestamps: all }) is issued
otherRead ==
    /\ other.calls # <<>> /\ other.calls[1].stage = "get"
    /\ other' = [other EXCEPT
                    !.calls = Append(Tail(@),
                                     Call("set", Merge(storage, other.id, other.list)))]
    /\ UNCHANGED <<url, dom, videoId, videoPlayer, attachedVideo, savedTimestamps,
                   container, progressBar, rows, markers, storage, tasks, saves,
                   events, memOwner, prior, last>>
    /\ UNCHANGED <<listening, observed, navVars, renderTimer>>

\* storageSet resolves in the second tab
otherDone ==
    /\ other.calls # <<>> /\ other.calls[1].stage = "set"
    /\ storage' = other.calls[1].all
    /\ other' = [other EXCEPT !.calls = Tail(@)]
    /\ UNCHANGED <<url, dom, videoId, videoPlayer, attachedVideo, savedTimestamps,
                   container, progressBar, rows, markers, tasks, saves,
                   events, memOwner, prior, last>>
    /\ UNCHANGED <<listening, observed, navVars, renderTimer>>

\* The first tab shows video "a" (its resync cycle is complete), the second
\* tab shows video "b".
InitTabs ==
    /\ url = Location("a", "watch", Null, "www.youtube.com")
    /\ dom = [secondary |-> TRUE, video |-> "video1", bar |-> "bar1", duration |-> VideoLength,
              resizeObserver |-> TRUE]
    /\ videoId = "a"
    /\ videoPlayer = "video1"
    /\ attachedVideo = "video1"
    /\ savedTimestamps = <<>>
    /\ container = TRUE
    /\ progressBar = "bar1"
    /\ rows = <<>>
    /\ markers = <<>>
    /\ storage = EmptyMap
    /\ tasks = <<>>
    /\ saves = 0
    /\ events = 1
    /\ other = Tab("b", <<>>, <<>>)
    /\ listening = {"video1"}
    /\ observed = {"video1"}
    /\ timerQ = <<>>
    /\ lastHref = <<url>>
    /\ calls = 1
    /\ installs = 1
    /\ hooked = TRUE
    /\ renderTimer = FALSE
    /\ memOwner = "a"
    /\ prior = NoPrior
    /\ last = Event("done", "load", 0, 0)

\* Both tabs save and delete bookmarks; neither navigates.
NextTabs ==
    \/ \E p \in Times : saveTimestamp(p)
    \/ \E i \in 1..Len(rows) : deleteTimestamp(i)
    \/ tasks # <<>> /\ persistRead(1)
    \/ tasks # <<>> /\ persistDone(1)
    \/ \E p \in Times : otherSave(p)
    \/ otherRead
    \/ otherDone

SpecTabs == InitTabs /\ [][NextTabs]_vars

(***************************************************************************)
(* Navigation producers: the debounced listeners that initialize()         *)
(* installs, their timers and the mutation observer.                       *)
(***************************************************************************)
\* the events with a listener debounce(onUrlChange, 80); the wrapped history
\* calls and popstate dispatch "timestamp-extension-url-changed"
Producers == {"timestamp-extension-url-changed", "yt-navigate-finish", "spfdone"}

\* the timer `t` of the debounce closure that run k of initialize() made for
\* the listener of event p
Timer(p, k) == [prod |-> p, inst |-> k]

\* the timers armed when event p is dispatched, one per installed listener
Armed(p) == [k \in 1..installs |-> Timer(p, k)]

\* the pending timers after event p is dispatched: the timers of p are
\* cleared and set again, behind the timers of the other events
Dispatched(p) == SelectSeq(timerQ, LAMBDA t : t.prod # p) \o Armed(p)

\* event p is dispatched: every debounced listener of p runs clearTimeout(t)
\* and setTimeout(..., wait).  A signal that finds no timer pending comes
\* after the window of the signal before it and starts a new burst.
signal(p) ==
    /\ timerQ' = Dispatched(p)
    /\ calls' = IF timerQ = <<>> THEN 0 ELSE calls
    /\ events < MaxEvents /\ events' = events + 1
    /\ UNCHANGED <<url, dom, videoId, videoPlayer, attachedVideo, savedTimestamps,
                   container, progressBar, rows, markers, storage, tasks, saves,
                   other, listening, observed, lastHref, installs,
                   hooked, renderTimer, memOwner, prior, last>>

\* the timer with the earliest deadline fires: fn(...args), onUrlChange()
fire ==
    /\ timerQ # <<>>
    /\ onUrlChange(url)
    /\ events < MaxEvents /\ events' = events + 1
    /\ timerQ' = Tail(timerQ)
    /\ calls' = calls + 1
    /\ UNCHANGED <<lastHref, installs, hooked, renderTimer>>

\* initialize() runs once more: hookHistoryEvents() returns at its guard, the
\* listeners and the mutation observer are added again.
initialize ==
    /\ installs < MaxInstalls
    /\ hooked' = TRUE
    /\ installs' = installs + 1
    /\ lastHref' = Append(lastHref, url)
    /\ UNCHANGED <<url, dom, videoId, videoPlayer, attachedVideo, savedTimestamps,
                   container, progressBar, rows, markers, storage, tasks, saves,
                   events, other, listening, observed, timerQ, calls,
                   renderTimer, memOwner, prior, last>>

NextNav ==
    \/ \E u \in Locations : hostNavigate(u)
    \/ \E p \in Producers : signal(p)
    \/ fire
    \/ \E k \in 1..MaxInstalls : observe(k)
    \/ initialize
    \/ tasks # <<>> /\ loadDone(1)

SpecNav == Init /\ [][NextNav]_vars

(***************************************************************************)
(* The host page replaces its playback element between navigations.        *)
(***************************************************************************)
Videos == {"video1", "video2"}

\* the page removes its <video> element (v = Null) or puts v in its place
hostReplaceVideo(v) ==
    /\ v # dom.video
    /\ dom' = [dom EXCEPT !.video = v]
    /\ UNCHANGED <<url, videoId, videoPlayer, attachedVideo, savedTimestamps,
                   container, progressBar, rows, markers, storage, tasks, saves,
                   events, other, listening, observed, navVars, renderTimer, memOwner, prior,
                   last>>

\* The resync cycle of video "a", which has one stored bookmark, is complete
\* and its element is bound; the host may lack the ResizeObserver constructor.
InitBind ==
    LET list == <<Bm(0, "")>> IN
    /\ url = Location("a", "watch", Null, "www.youtube.com")
    /\ \E ro \in BOOLEAN :
          /\ dom = [secondary |-> TRUE, video |-> "video1", bar |-> "bar1",
                    duration |-> VideoLength, resizeObserver |-> ro]
          /\ observed = IF ro THEN {"video1"} ELSE {}
    /\ videoId = "a"
    /\ videoPlayer = "video1"
    /\ attachedVideo = "video1"
    /\ listening = {"video1"}
    /\ savedTimestamps = list
    /\ container = TRUE
    /\ progressBar = "bar1"
    /\ rows = list
    /\ markers = list
    /\ storage = Merge(EmptyMap, "a", list)
    /\ tasks = <<>>
    /\ saves = 0
    /\ events = 1
    /\ other = NoTab
    /\ timerQ = <<>>
    /\ lastHref = <<url>>
    /\ calls = 1
    /\ installs = 1
    /\ hooked = TRUE
    /\ renderTimer = FALSE
    /\ memOwner = "a"
    /\ prior = NoPrior
    /\ last = Event("done", "load", 0, 0)

(***************************************************************************)
(* Marker redraws driven by the playback element.                          *)
(***************************************************************************)
\* a timeupdate event of an element that carries the listener, or a resize
\* observation of an observed element: the wrapper made by debounce runs
\* clearTimeout(t) and t = setTimeout(..., 120)
videoSignal ==
    /\ listening \cup observed # {}
    /\ renderTimer' = TRUE
    /\ UNCHANGED <<url, dom, videoId, videoPlayer, attachedVideo, savedTimestamps,
                   container, progressBar, rows, markers, storage, tasks, saves,
                   events, other, listening, observed, navVars, memOwner, prior,
                   last>>

\* the timer of debouncedRenderMarkers fires: renderProgressBarMarkers().
\* attachVideoListeners does not clear it, so it also fires after the
\* element that armed it was unbound.
redrawMarkers ==
    /\ renderTimer
    /\ renderTimer' = FALSE
    /\ videoPlayer' = MarkerVideo
    /\ progressBar' = MarkerBar(progressBar)
    /\ markers' = renderProgressBarMarkers(savedTimestamps, progressBar, markers)
    /\ last' = Event("markers", "", 0, 0)
    /\ events < MaxEvents /\ events' = events + 1
    /\ UNCHANGED <<url, dom, videoId, attachedVideo, savedTimestamps, container,
                   rows, storage, tasks, saves, other, listening, observed,
                   navVars, memOwner, prior>>

\* videoPlayer.duration becomes a finite positive number (metadata loaded)
\* or stops being one (a new source is being loaded)
hostDuration(d) ==
    /\ d # dom.duration
    /\ dom' = [dom EXCEPT !.duration = d]
    /\ UNCHANGED <<url, videoId, videoPlayer, attachedVideo, savedTimestamps,
                   container, progressBar, rows, markers, storage, tasks, saves,
                   events, other, listening, observed, navVars, renderTimer, memOwner, prior,
                   last>>

\* another address of video "a" on the same origin (the identifier comes
\* from the query string, whatever the path)
SameVideo == Location("a", "other", Null, "www.youtube.com")

\* Binding: the page replaces its element while the script navigates, takes
\* clicks on markers and redraws them; no bookmark is changed, so the only
\* storage calls are the loads, which storage answers.
NextBind ==
    \/ \E u \in Locations \cup {SameVideo} : hostNavigate(u)
    \/ observe(1)
    \/ \E v \in Videos \cup {Null} : hostReplaceVideo(v)
    \/ \E i \in 1..Len(markers) : markerClick(i)
    \/ tasks # <<>> /\ loadDone(1)
    \/ videoSignal
    \/ redrawMarkers

SpecBind == InitBind /\ [][NextBind]_vars

\* Video "a" is shown with two bookmarks, stored, listed and marked.
InitDom ==
    LET list == <<Bm(0, ""), Bm(1, "")>> IN
    /\ url = Location("a", "watch", Null, "www.youtube.com")
    /\ dom = [secondary |-> TRUE, video |-> "video1", bar |-> "bar1", duration |-> VideoLength,
              resizeObserver |-> TRUE]
    /\ videoId = "a"
    /\ videoPlayer = "video1"
    /\ attachedVideo = "video1"
    /\ listening = {"video1"}
    /\ observed = {"video1"}
    /\ savedTimestamps = list
    /\ container = TRUE
    /\ progressBar = "bar1"
    /\ rows = list
    /\ markers = list
    /\ storage = Merge(EmptyMap, "a", list)
    /\ tasks = <<>>
    /\ saves = 2
    /\ events = 0
    /\ other = NoTab
    /\ timerQ = <<>>
    /\ lastHref = <<url>>
    /\ calls = 1
    /\ installs = 1
    /\ hooked = TRUE
    /\ renderTimer = FALSE
    /\ memOwner = "a"
    /\ prior = NoPrior
    /\ last = Event("done", "save", 0, 0)

NextDom ==
    \/ \E ok \in BOOLEAN : clearAll(ok)
    \/ \E i \in 1..Len(rows), n \in NoteTexts : commitNote(i, n)
    \/ Page
    \/ Storage
    \/ videoSignal
    \/ redrawMarkers
    \/ \E d \in {NoDuration, VideoLength} : hostDuration(d)

SpecDom == InitDom /\ [][NextDom]_vars

(***************************************************************************)
(* Storage failures: chrome.runtime.lastError is set when a callback runs  *)
(* and the promise of storageGet or storageSet is rejected.                *)
(***************************************************************************)
\* a stored value that is not an array; `items` stands for the value itself
Corrupt == [isArray |-> FALSE, items |-> <<JsonNull>>]

\* storageGet rejects for tasks[i], a load: the catch block sets the list to
\* [] and onUrlChange goes on
loadFailed(i) ==
    LET t == tasks[i]
        r == Render(<<>>, dom.bar)
    IN
    /\ t.op = "load" /\ t.stage = "get"
    /\ tasks' = RemoveAt(tasks, i)
    /\ savedTimestamps' = <<>>
    /\ memOwner' = t.id
    /\ container' = r.container
    /\ rows' = r.rows
    /\ videoPlayer' = r.videoPlayer
    /\ progressBar' = r.progressBar
    /\ markers' = r.markers
    /\ last' = Event("rejected", "load", 0, 0)
    /\ UNCHANGED <<url, dom, videoId, attachedVideo, storage, saves, events,
                   other, prior, listening, observed, navVars, renderTimer>>

\* storageGet or storageSet rejects for tasks[i], a persist: the catch block
\* logs the error, persistSavedTimestampsForVideo returns and the caller's
\* continuation runs
persistFailed(i) ==
    LET t == tasks[i]
        r == Render(savedTimestamps, progressBar)
    IN
    /\ t.op # "load"
    /\ tasks' = RemoveAt(tasks, i)
    /\ last' = Event("rejected", t.op, 0, IF t.stage = "get" THEN 0 ELSE 1)
    /\ IF t.op = "note"
       THEN UNCHANGED <<container, rows, videoPlayer, progressBar, markers>>
       ELSE /\ container' = r.container
            /\ rows' = r.rows
            /\ videoPlayer' = r.videoPlayer
            /\ progressBar' = r.progressBar
            /\ markers' = r.markers
    /\ UNCHANGED <<url, dom, videoId, attachedVideo, savedTimestamps, storage,
                   memOwner, saves, events, other, prior, listening, observed,
                   navVars, renderTimer>>

\* The script is initialised; the store is empty, or holds a value that is
\* not an array under identifier "b", alone or next to a bookmark of "a".
InitFail ==
    /\ url \in Locations
    /\ dom = [secondary |-> TRUE, video |-> "video1", bar |-> "bar1", duration |-> VideoLength,
              resizeObserver |-> TRUE]
    /\ videoId = Null
    /\ videoPlayer = Null
    /\ attachedVideo = Null
    /\ savedTimestamps = <<>>
    /\ container = FALSE
    /\ progressBar = Null
    /\ rows = <<>>
    /\ markers = <<>>
    /\ storage \in {EmptyMap,
                     [k \in {"b"} |-> Corrupt],
                     Merge([k \in {"b"} |-> Corrupt], "a", <<Bm(0, "")>>)}
    /\ tasks = <<>>
    /\ saves = 0
    /\ events = 0
    /\ other = NoTab
    /\ listening = {}
    /\ observed = {}
    /\ timerQ = <<>>
    /\ lastHref = <<url>>
    /\ calls = 0
    /\ installs = 1
    /\ hooked = TRUE
    /\ renderTimer = FALSE
    /\ memOwner = Null
    /\ prior = NoPrior
    /\ last = Event("init", "", 0, 0)

NextFail ==
    \/ Page
    \/ \E p \in Times : saveTimestamp(p)
    \/ Storage
    \/ tasks # <<>> /\ loadFailed(1)
    \/ tasks # <<>> /\ persistFailed(1)

SpecFail == InitFail /\ [][NextFail]_vars

\* Loads only: navigations, and storage reads that are answered or rejected.
NextLoad ==
    \/ Page
    \/ tasks # <<>> /\ loadDone(1)
    \/ tasks # <<>> /\ loadFailed(1)

SpecLoad == InitFail /\ [][NextLoad]_vars

(***************************************************************************)
(* Side panel: the host page builds #secondary some time after the script  *)
(* has started, so a resync can reach its render before the region exists. *)
(***************************************************************************)
\* the host page inserts the side-panel region (#secondary)
hostPanel ==
    /\ ~dom.secondary
    /\ dom' = [dom EXCEPT !.secondary = TRUE]
    /\ UNCHANGED <<url, videoId, videoPlayer, attachedVideo, savedTimestamps,
                   container, progressBar, rows, markers, storage, tasks,
                   saves, events, other, listening, observed, navVars, renderTimer,
                   memOwner, prior, last>>

\* The script is initialised on a page whose side-panel region is not built
\* yet; the store holds one bookmark of video "a".
InitPanel ==
    /\ url \in Locations
    /\ dom = [secondary |-> FALSE, video |-> "video1", bar |-> "bar1", duration |-> VideoLength,
              resizeObserver |-> TRUE]
    /\ videoId = Null
    /\ videoPlayer = Null
    /\ attachedVideo = Null
    /\ savedTimestamps = <<>>
    /\ container = FALSE
    /\ progressBar = Null
    /\ rows = <<>>
    /\ markers = <<>>
    /\ storage = [k \in {"a"} |-> [isArray |-> TRUE, items |-> <<Bm(0, "")>>]]
    /\ tasks = <<>>
    /\ saves = 0
    /\ events = 0
    /\ other = NoTab
    /\ listening = {}
    /\ observed = {}
    /\ timerQ = <<>>
    /\ lastHref = <<url>>
    /\ calls = 0
    /\ installs = 1
    /\ hooked = TRUE
    /\ renderTimer = FALSE
    /\ memOwner = Null
    /\ prior = NoPrior
    /\ last = Event("init", "", 0, 0)

NextPanel ==
    \/ Page
    \/ \E p \in Times : saveTimestamp(p)
    \/ \E i \in 1..Len(rows) : deleteTimestamp(i)
    \/ \E ok \in BOOLEAN : clearAll(ok)
    \/ Storage
    \/ hostPanel

SpecPanel == InitPanel /\ [][NextPanel]_vars

(***************************************************************************)
(* Retry: navigation events keep being dispatched, the side-panel region   *)
(* is built at some point and stays, and every storage read is answered.   *)
(***************************************************************************)
\* a further navigation event p is dispatched, at any time: the debounced
\* listeners of p clear and set their timers (signal(p), not counted)
resignal(p) ==
    /\ timerQ' = Dispatched(p)
    /\ UNCHANGED <<url, dom, videoId, videoPlayer, attachedVideo,
                   savedTimestamps, container, progressBar, rows, markers,
                   storage, tasks, saves, events, other, listening, observed,
                   lastHref, calls, installs, hooked, renderTimer, memOwner,
                   prior, last>>

\* the timer with the earliest deadline fires: onUrlChange() (fire; a call
\* that returns at its guard for an unchanged identifier is not counted)
refire ==
    /\ timerQ # <<>>
    /\ onUrlChange(url)
    /\ IF getVideoIdFromUrl(url) = videoId
       THEN events' = events
       ELSE events < MaxEvents /\ events' = events + 1
    /\ timerQ' = Tail(timerQ)
    /\ UNCHANGED <<lastHref, calls, installs, hooked, renderTimer>>

NextRetry ==
    \/ Page
    \/ \E p \in Producers : resignal(p)
    \/ refire
    \/ tasks # <<>> /\ loadDone(1)
    \/ hostPanel

\* Navigation events are dispatched again and again, every timer that stays
\* pending fires, the mutation observer's callback is delivered, the host
\* page finishes building the side panel, and chrome.storage.local answers
\* every read.
SpecRetry ==
    /\ InitPanel
    /\ [][NextRetry]_vars
    /\ WF_vars(resignal("yt-navigate-finish"))
    /\ WF_vars(refire)
    /\ WF_vars(observe(1))
    /\ WF_vars(hostPanel)
    /\ WF_vars(tasks # <<>> /\ loadDone(1))

(***************************************************************************)
(* Properties.                                                             *)
(***************************************************************************)
\* C1: in every reachable state the in-memory list is the list of the
\* active identifier: videoId is never X while savedTimestamps holds the
\* list made for another identifier Y.
C1_ListOfActiveIdentifier == memOwner \in Ids => memOwner = videoId

\* C2: every mapping that persistSavedTimestampsForVideo(X) hands to
\* storageSet carries under X the list that belongs to X.
C2_WritesListOfItsIdentifier ==
    \A i \in 1..Len(tasks) : tasks[i].stage = "set" => tasks[i].src = tasks[i].id

\* C3: when no storage call is in flight and an identifier is active, the
\* stored entry of that identifier is the in-memory list.
C3_StoredWhenQuiescent ==
    (tasks = <<>> /\ videoId \in Ids) => Loaded(storage, videoId) = savedTimestamps

\* C4: the stored entry of an identifier that is not the active one changes
\* only when a persist of that identifier stores that identifier's own list;
\* leaving an identifier neither empties nor alters its entry.
C4_InactiveEntryKept ==
    [][\A x \in Ids :
          (videoId # x /\ Loaded(storage', x) # Loaded(storage, x))
              => /\ tasks # <<>>
                 /\ tasks[1].stage = "set"
                 /\ tasks[1].id = x
                 /\ tasks[1].src = x]_vars

\* C5: persisting the in-memory list under an identifier and then loading
\* that identifier gives the same list back, element by element.
C5_PersistThenLoad ==
    \A x \in Ids : Loaded(Merge(storage, x, savedTimestamps), x) = savedTimestamps

\* C6: after a switch from A to B and back to A, the load of A restores the
\* list A had when it was left.
C6_SwitchBackRestores ==
    (/\ last.op = "done" /\ last.by = "load"
     /\ prior.back /\ prior.id = videoId /\ memOwner = videoId)
        => savedTimestamps = prior.list

\* C7: once the persists of both tabs are complete, the stored mapping
\* holds the list of the first tab under its identifier and the list of the
\* second tab under its identifier.
C7_BothTabsStored ==
    (tasks = <<>> /\ other.calls = <<>> /\ saves > 0 /\ other.list # <<>>)
        => /\ Loaded(storage, videoId) = savedTimestamps
           /\ Loaded(storage, other.id) = other.list

\* C8: deleteTimestamp with an index outside the list changes neither the
\* list nor the storage calls in flight; with an index i inside it, the list
\* afterwards is the list before without its element i, the other elements
\* in their order, and a persist of the active identifier is issued.
C8_RemoveAt ==
    [][(events' = events + 1 /\ last'.op = "delete") =>
          LET i == last'.idx
              n == Len(savedTimestamps)
          IN IF i \in 1..n
             THEN /\ Len(savedTimestamps') = n - 1
                  /\ \A k \in 1..(n - 1) :
                        savedTimestamps'[k] = savedTimestamps[IF k < i THEN k ELSE k + 1]
                  /\ Len(tasks') = Len(tasks) + 1
                  /\ tasks'[Len(tasks')] = Task("delete", videoId)
             ELSE /\ savedTimestamps' = savedTimestamps
                  /\ tasks' = tasks
                  /\ storage' = storage]_vars

\* C8 witness: the delete button of a row whose index is past the end of
\* the list has been clicked, and nothing was removed.
C8_Witness ==
    /\ last.op = "delete" /\ last.val = 0
    /\ last.idx > Len(savedTimestamps)
    /\ savedTimestamps # <<>>

\* C9: when the persist of a confirmed clear-all completes and no storage
\* call is left in flight, the in-memory list is empty, the stored entry of
\* the cleared identifier is the empty sequence and no marker is drawn.
C9_ClearAll ==
    [][(/\ tasks # <<>>
        /\ tasks[1].op = "clear" /\ tasks[1].stage = "set"
        /\ tasks' = <<>>)
          => /\ savedTimestamps' = <<>>
             /\ tasks[1].id \in DOMAIN storage'
             /\ storage'[tasks[1].id].isArray
             /\ storage'[tasks[1].id].items = <<>>
             /\ markers' = <<>>]_vars

\* C10: a delete, note commit or jump started from row i acts on the
\* bookmark that row displays: the element a delete removes, the element a
\* note commit writes and the time a jump seeks to are those of row i.
C10_ActsOnDisplayedBookmark ==
    [][(events' = events + 1 /\ last'.op \in {"delete", "note", "jump"}) =>
          LET i == last'.idx IN
          /\ (last'.op = "delete" /\ last'.val = 1)
                => savedTimestamps[i].time = rows[i].time
          /\ last'.op = "note"
                => /\ i <= Len(savedTimestamps)
                   /\ savedTimestamps[i].time = rows[i].time
          /\ (last'.op = "jump" /\ last'.val # Undefined)
                => last'.val = rows[i].time]_vars

\* C11: the note commit validates its index, so every element of the
\* in-memory list is a bookmark with a time and a note (a commit with an
\* index outside the list leaves the list unchanged).
C11_EveryElementIsBookmark ==
    \A k \in 1..Len(savedTimestamps) :
        /\ savedTimestamps[k].kind = "bm"
        /\ savedTimestamps[k].time \in Times
        /\ savedTimestamps[k].note \in NoteTexts

\* C12: a note commit whose text is the text the row was rendered with
\* issues no storage call and leaves the in-memory list unchanged.
C12_UneditedCommitIsNoOp ==
    [][(/\ events' = events + 1
        /\ last'.op = "note"
        /\ savedTimestamps'[last'.idx].note = rows[last'.idx].note)
          => /\ tasks' = tasks
             /\ savedTimestamps' = savedTimestamps]_vars

\* C13: an onUrlChange call that resolves the identifier it already has
\* changes nothing: no storage call, no change of the list, of the bound
\* elements, of the container, of the rows or of the markers.
C13_SameIdentifierIsNoOp ==
    [][(/\ events' = events + 1
        /\ last'.op = "onUrlChange"
        /\ getVideoIdFromUrl(url') = videoId)
          => UNCHANGED <<videoId, videoPlayer, attachedVideo, savedTimestamps,
                         container, progressBar, rows, markers, storage, tasks,
                         memOwner, listening, observed>>]_vars

\* C13 witness: onUrlChange has run for another address of the video
\* already shown, after its list was loaded and rendered.
C13_Witness ==
    /\ last.op = "onUrlChange"
    /\ tasks = <<>>
    /\ videoId \in Ids /\ getVideoIdFromUrl(url) = videoId
    /\ memOwner = videoId /\ container
    /\ savedTimestamps # <<>> /\ rows = savedTimestamps
    /\ url = SameVideo

\* C14: the signals of one burst are coalesced: when every timer of the
\* burst has fired, onUrlChange has been invoked at most once for it (with
\* the listeners installed once).
C14_OneCallPerBurst ==
    (timerQ = <<>> /\ installs = 1) => calls <= 1

\* C15: the navigation producers are installed once however often
\* initialize() runs: one dispatched event arms one timer, and one mutation
\* observer watches the location.
C15_ProducersInstalledOnce ==
    /\ \A p \in Producers :
          Cardinality({i \in 1..Len(timerQ) : timerQ[i].prod = p}) <= 1
    /\ Len(lastHref) <= 1

\* C16: at most one element carries the timeupdate listener and the resize
\* observation, and it is attachedVideo, the element of the most recent
\* attachVideoListeners call (none after a call with null).
C16_OneBoundElement ==
    /\ listening = (IF attachedVideo = Null THEN {} ELSE {attachedVideo})
    /\ observed = (IF attachedVideo # Null /\ dom.resizeObserver
                   THEN {attachedVideo} ELSE {})

\* C16 witness: the listeners were moved from the element bound first to
\* the element the host page put in its place.
C16_Witness ==
    /\ attachedVideo = "video2"
    /\ listening = {"video2"}
    /\ observed = {"video2"}

\* C17: when renderProgressBarMarkers completes with a progress bar and a
\* playback element, the markers are one per element of the in-memory list,
\* in list order, if the duration is a finite positive number, and none
\* otherwise.
C17_MarkersAreTheList ==
    [][(/\ events' = events + 1
        /\ last'.op = "markers"
        /\ progressBar' # Null /\ videoPlayer' # Null)
          => markers' = IF dom.duration # NoDuration
                        THEN SelectSeq(savedTimestamps, LAMBDA e : e.kind # "hole")
                        ELSE <<>>]_vars

\* C18: when the persist of a mutation (save, delete, note commit, clear)
\* completes and no storage call is left in flight, the rows of the list
\* panel and the markers of the progress bar are those of the in-memory
\* list, times and notes included.
C18_RenderedAfterMutation ==
    [][(/\ tasks # <<>>
        /\ tasks[1].stage = "set"
        /\ tasks' = <<>>
        /\ videoId \in Ids /\ container')
          => /\ rows' = savedTimestamps'
             /\ markers' = savedTimestamps']_vars

\* C19: a load that completes, its storage read answered or rejected,
\* leaves as in-memory list the stored value if that is an array and the
\* empty list otherwise; the store is not written, no storage call is
\* issued, and the caller goes on to render the list.
C19_LoadNeverFails ==
    [][(/\ tasks # <<>>
        /\ tasks[1].op = "load"
        /\ Len(tasks') = Len(tasks) - 1)
          => LET id == tasks[1].id
                 valid == id \in DOMAIN storage /\ storage[id].isArray
             IN /\ savedTimestamps' = IF last'.op = "done" /\ valid
                                      THEN storage[id].items ELSE <<>>
                /\ storage' = storage
                /\ tasks' = Tail(tasks)
                /\ last'.op \in {"done", "rejected"}
                /\ (videoId # Null /\ dom.secondary) => container'
                /\ container' => rows' = savedTimestamps']_vars

\* C19 witness: the load of an identifier whose stored value is not an array
\* has completed with the empty list.
C19_Witness ==
    /\ last.op = "done" /\ last.by = "load"
    /\ memOwner = "b" /\ videoId = "b"
    /\ "b" \in DOMAIN storage /\ ~storage["b"].isArray
    /\ savedTimestamps = <<>> /\ container

\* C20: when a storage call of the persist of a save, delete or clear is
\* rejected, the in-memory list and the store stay as they are, no storage
\* call is issued again, and the caller re-renders: the list panel shows
\* the in-memory list.
C20_PersistFailureContained ==
    [][(/\ last'.op = "rejected" /\ last'.by \in {"save", "delete", "clear"}
        /\ Len(tasks') = Len(tasks) - 1)
          => /\ savedTimestamps' = savedTimestamps
             /\ storage' = storage
             /\ tasks' = Tail(tasks)
             /\ container'
             /\ rows' = savedTimestamps']_vars

\* C21: a missing side-panel region or overlay container is never fatal:
\* whenever the continuation of a load (the resync) or of the persist of a
\* save, delete or clear runs its render step, the step has a container to
\* render into and does not fail.
C21_AbsenceNotFatal ==
    [][(tasks # <<>> /\ Len(tasks') = Len(tasks) - 1) => container']_vars

\* C22: the resync cycle completes, with retry: whenever the page is on a
\* video, then eventually either it has left that video or the overlay
\* container exists and the list panel shows the stored list of that video,
\* also when the first resync ran before the side-panel region existed.
C22_ResyncEventually ==
    \A x \in Ids :
        (videoId = x) ~>
            (videoId # x \/ (container /\ rows = Loaded(storage, x)))

====
